---- MODULE Spec2Model ----
(***************************************************************************)
(* Model of main.go: main, handleError, validateCommandArgs, fetch and     *)
(* tally, with the debug goroutine and the process-wide deadline.          *)
(*                                                                         *)
(* Bytes are modelled as one-character tokens.  A float64 is modelled as   *)
(* an exact decimal, an integer number of 10^-7 units (the value field is  *)
(* 8 bytes wide, so no parsed value has more than 7 decimals); the values  *)
(* the model feeds in are exactly representable at 32-bit precision.       *)
(***************************************************************************)
EXTENDS Integers, Sequences, FiniteSets, TLC

\* ------------------------------------------------------------------ bounds
\* Largest number of pieces (records or malformed fragments) in a response body.
MaxPieces == 3
\* Largest number of stream.Read calls followed (a live stream may return zero
\* bytes without error any number of times).
MaxReads == 4

\* ------------------------------------------------------- program constants
\* buf = make([]byte, 30)
BufLen == 30
\* prevTimeSlot [13]byte, timeSlot := buf[:13]
KeyLen == 13
\* buf[21:29]
ValFrom == 21
ValTo == 29
\* fasthttp.StatusOK
StatusOK == 200

NL == "\n"
NUL == "NUL"
Digits == {"0", "1", "2", "3", "4", "5", "6", "7", "8", "9"}
WhiteSpace == {" ", NL}

Min(a, b) == IF a < b THEN a ELSE b

RECURSIVE Pow10(_)
Pow10(k) == IF k = 0 THEN 1 ELSE 10 * Pow10(k - 1)

\* Number of decimals kept by the exact-decimal model of a float64.
FracDigits == (ValTo - ValFrom) - 1

\* ------------------------------------------------------------ wire format
\* YYYY-MM-DDTHH, the hour digit h being the only part that varies.
Key(h) == <<"2", "0", "2", "4", "-", "0", "1", "-", "0", "1", "T", "0", h>>
\* :MM:SSZ and the blank before the value (bytes 13..20).
Sep == <<":", "0", "0", ":", "0", "0", "Z", " ">>
\* The 8-byte value field " d0.0000".
ValText(d) == <<" ", d, "0", ".", "0", "0", "0", "0">>
\* One well-formed 30-byte record.
Record(h, d) == Key(h) \o Sep \o ValText(d) \o <<NL>>

\* The well-formed records of the model: hour 00 with 10 and 20, hour 01 with 20.
Records == {Record("0", "1"), Record("0", "2"), Record("1", "2")}

\* Malformed fragments: a record cut before its newline, a record whose value
\* field is not a number, and a 9-byte tail that ends in a newline.
NoNewline == SubSeq(Record("0", "1"), 1, BufLen - 1)
BadValue == Key("0") \o Sep \o <<" ", "1", "0", ":", "0", "0", "0", "0">> \o <<NL>>
ShortTail == ValText("2") \o <<NL>>
Pieces == Records \cup {NoNewline, BadValue, ShortTail}

RECURSIVE Flatten(_)
Flatten(ps) == IF ps = <<>> THEN <<>> ELSE Head(ps) \o Flatten(Tail(ps))

\* The response bodies the server may send.
Bodies == {Flatten(ps) : ps \in UNION {[1..k -> Pieces] : k \in 0..MaxPieces}}

\* ------------------------------------------------------------ conversions
\* strings.TrimSpace
RECURSIVE TrimLeft(_)
TrimLeft(s) == IF s # <<>> /\ Head(s) \in WhiteSpace THEN TrimLeft(Tail(s)) ELSE s
RECURSIVE TrimRight(_)
TrimRight(s) ==
    IF s # <<>> /\ s[Len(s)] \in WhiteSpace THEN TrimRight(SubSeq(s, 1, Len(s) - 1)) ELSE s
TrimSpace(s) == TrimRight(TrimLeft(s))

DigitVal(c) == CHOOSE v \in 0..9 : <<"0", "1", "2", "3", "4", "5", "6", "7", "8", "9">>[v + 1] = c

RECURSIVE DigitsVal(_)
DigitsVal(s) == IF s = <<>> THEN 0 ELSE 10 * DigitsVal(SubSeq(s, 1, Len(s) - 1)) + DigitVal(s[Len(s)])

\* strconv.ParseFloat over the tokens of the model: an optional sign, digits
\* with at most one decimal point and at least one digit.  The result is
\* [ok, val], val in 10^-7 units.
ParseFloat(s) ==
    LET neg == s # <<>> /\ Head(s) = "-"
        body == IF s # <<>> /\ Head(s) \in {"-", "+"} THEN Tail(s) ELSE s
        dots == {i \in 1..Len(body) : body[i] = "."}
        digs == SelectSeq(body, LAMBDA c : c \in Digits)
        wellformed == /\ \A i \in 1..Len(body) : body[i] \in Digits \cup {"."}
                      /\ Cardinality(dots) <= 1
                      /\ digs # <<>>
        decimals == IF dots = {} THEN 0 ELSE Len(body) - (CHOOSE i \in dots : TRUE)
        mag == DigitsVal(digs) * Pow10(FracDigits - decimals)
    IN  IF wellformed THEN [ok |-> TRUE, val |-> IF neg THEN 0 - mag ELSE mag]
        ELSE [ok |-> FALSE, val |-> 0]

\* avg := sum / float64(count), printed with %8.4f: the average rounded to
\* four decimals (in 10^-4 units), or NaN for 0/0.
FormatAvg(sum, count) ==
    IF count = 0 THEN [nan |-> TRUE, avg |-> 0]
    ELSE LET den == count * Pow10(FracDigits - 4)
             mag == IF sum < 0 THEN 0 - sum ELSE sum
             q == (mag + den \div 2) \div den
         IN  [nan |-> FALSE, avg |-> IF sum < 0 THEN 0 - q ELSE q]

\* ------------------------------------------------------------------ state
VARIABLES
    args,            \* os.Args[1:]
    pc,              \* position of main (inside fetch and tally too)
    exit,            \* "running", or the process exit status "exit0" / "exit1"
    isDebug,         \* main's isDebug
    err,             \* main's err, also assigned by the debug goroutine
    gpc,             \* position of the debug goroutine
    mainDefer,       \* main has deferred fasthttp.ReleaseResponse(bodyStreamResp)
    req,             \* the request object: "none", "acquired", "released"
    reqReleases,     \* number of ReleaseRequest calls
    requests,        \* number of fasthttp.DoTimeout calls
    resp,            \* the response object: "none", "acquired", "released"
    respReleases,    \* number of ReleaseResponse calls on it
    reply,           \* what DoTimeout produced: error, status, content type, body
    hasBodyStream,   \* fetch's hasBodyStream
    ferr,            \* fetch's named result err
    stream,          \* the reader: "nil", "bytes" (bytes.Reader), "body" (live stream)
    bodyStreamResp,  \* main's bodyStreamResp: "nil" or "resp"
    ctxErr,          \* ctx.Err() != nil: the process deadline has elapsed
    pos,             \* bytes the reader has delivered so far
    buf,             \* tally's buf
    prevTimeSlot,    \* tally's prevTimeSlot
    sum,             \* tally's sum
    count,           \* tally's count
    terr,            \* tally's named result err
    wbuf,            \* lines held by the bufio.Writer
    stdout,          \* what has reached standard output
    flushes,         \* number of writer.Flush() calls
    emitted,         \* history: the arguments of every tallyAndPrint call
    nreads,          \* history: number of stream.Read calls
    intact,          \* history: every read so far delivered the bytes of the body
    eofData,         \* history: a read returned n > 0 bytes together with io.EOF
    delivered        \* history: the bytes the reads have returned, in order

procVars == <<args, pc, exit, isDebug, err, gpc, mainDefer>>
fetchVars == <<req, reqReleases, requests, resp, respReleases, reply, hasBodyStream, ferr, stream,
               bodyStreamResp>>
tallyVars == <<pos, buf, prevTimeSlot, sum, count, terr, wbuf, stdout, flushes, emitted,
               nreads, intact, eofData, delivered>>
vars == <<procVars, fetchVars, ctxErr, tallyVars>>

\* RFC3339 arguments are modelled by "t1" < "t2"; "bad" does not parse.
\* One argument list per outcome of validateCommandArgs.
ArgLists == {<<"t1">>, <<"bad", "t2">>, <<"t1", "bad">>, <<"t2", "t1">>,
             <<"t1", "t2">>, <<"t1", "t2", "debug">>}
TimeOf(a) == IF a = "t1" THEN 1 ELSE 2

Msg(t) == [kind |-> "msg", text |-> t]

NoReply == [err |-> FALSE, status |-> 0, ctype |-> <<>>, bodyStream |-> FALSE, body |-> <<>>]

Init ==
    /\ args \in ArgLists
    /\ pc = "validate"
    /\ exit = "running"
    /\ isDebug = FALSE
    /\ err = "nil"
    /\ gpc = "off"
    /\ mainDefer = FALSE
    /\ req = "none"
    /\ reqReleases = 0
    /\ requests = 0
    /\ resp = "none"
    /\ respReleases = 0
    /\ reply = NoReply
    /\ hasBodyStream = FALSE
    /\ ferr = "nil"
    /\ stream = "nil"
    /\ bodyStreamResp = "nil"
    /\ ctxErr = FALSE
    /\ pos = 0
    /\ buf = [i \in 1..BufLen |-> NUL]
    /\ prevTimeSlot = [i \in 1..KeyLen |-> NUL]
    /\ sum = 0
    /\ count = 0
    /\ terr = "nil"
    /\ wbuf = <<>>
    /\ stdout = <<>>
    /\ flushes = 0
    /\ emitted = <<>>
    /\ nreads = 0
    /\ intact = TRUE
    /\ eofData = FALSE
    /\ delivered = <<>>

\* ------------------------------------------------------------------- main
\* validateCommandArgs: [err, isDebug]
ValidateCommandArgs(a) ==
    IF Len(a) < 2 THEN [err |-> "args", isDebug |-> FALSE]
    ELSE IF a[1] \notin {"t1", "t2"} THEN [err |-> "args", isDebug |-> FALSE]
    ELSE IF a[2] \notin {"t1", "t2"} THEN [err |-> "args", isDebug |-> FALSE]
    ELSE IF TimeOf(a[1]) > TimeOf(a[2]) THEN [err |-> "args", isDebug |-> FALSE]
    ELSE [err |-> "nil", isDebug |-> Len(a) > 2 /\ a[3] = "debug"]

\* handleError(e, nil): print and os.Exit(1) when e is an error, else go on
\* at next.  os.Exit runs no deferred call.
HandleError(e, next) ==
    IF e # "nil"
    THEN /\ exit' = "exit1"
         /\ stdout' = Append(stdout, Msg("Error"))
         /\ pc' = pc
    ELSE /\ pc' = next
         /\ UNCHANGED <<exit, stdout>>

\* The deadline of context.WithTimeout(processTimeout) elapses.  Only the
\* head of tally's loop reads ctx.Err(), so the deadline is followed from the
\* state in which it is first observable: whenever it elapsed since the last
\* check, the next check sees it.
Expire ==
    /\ exit = "running"
    /\ pc = "tally_loop"
    /\ ~ctxErr
    /\ ctxErr' = TRUE
    /\ UNCHANGED <<procVars, fetchVars, tallyVars>>

MainValidate ==
    /\ exit = "running" /\ pc = "validate"
    /\ LET v == ValidateCommandArgs(args)
       IN  /\ err' = v.err
           /\ isDebug' = v.isDebug
    /\ pc' = "he_args"
    /\ UNCHANGED <<args, exit, gpc, mainDefer, fetchVars, ctxErr, tallyVars>>

MainHandleErrorArgs ==
    /\ exit = "running" /\ pc = "he_args"
    /\ HandleError(err, "debug")
    /\ UNCHANGED <<args, isDebug, err, gpc, mainDefer, fetchVars, ctxErr, pos, buf,
                   prevTimeSlot, sum, count, terr, wbuf, flushes, emitted, nreads, intact, eofData, delivered>>

\* if isDebug { print the range; go func() { ... }() }
MainDebug ==
    /\ exit = "running" /\ pc = "debug"
    /\ IF isDebug
       THEN /\ gpc' = "listen"
            /\ stdout' = Append(stdout, Msg("Start time"))
       ELSE UNCHANGED <<gpc, stdout>>
    /\ pc' = "fetch"
    /\ UNCHANGED <<args, exit, isDebug, err, mainDefer, fetchVars, ctxErr, pos, buf,
                   prevTimeSlot, sum, count, terr, wbuf, flushes, emitted, nreads, intact, eofData, delivered>>

\* The goroutine: http.ListenAndServe returns (it only ever returns an error),
\* and the error is assigned to main's err.
GoListenFail ==
    /\ exit = "running" /\ gpc = "listen"
    /\ err' = "listen"
    /\ gpc' = "handle"
    /\ UNCHANGED <<args, pc, exit, isDebug, mainDefer, fetchVars, ctxErr, tallyVars>>

\* The goroutine: handleError(err, nil), reading main's err.
GoHandleError ==
    /\ exit = "running" /\ gpc = "handle"
    /\ IF err # "nil"
       THEN /\ exit' = "exit1"
            /\ stdout' = Append(stdout, Msg("Error"))
            /\ gpc' = gpc
       ELSE /\ gpc' = "done"
            /\ UNCHANGED <<exit, stdout>>
    /\ UNCHANGED <<args, pc, isDebug, err, mainDefer, fetchVars, ctxErr, pos, buf,
                   prevTimeSlot, sum, count, terr, wbuf, flushes, emitted, nreads, intact, eofData, delivered>>

\* ------------------------------------------------------------------ fetch
\* A Content-Type header value is a sequence of tokens; TextPlain is the
\* literal "text/plain" of the check.
TextPlain == <<"text/plain">>

\* Header values a server may send: the bare type, the type with a
\* parameter, another type, and no header.
ContentTypes ==
    {TextPlain, TextPlain \o <<"; charset=utf-8">>, <<"text/html">>, <<>>}

\* bytes.HasPrefix(s, prefix)
HasPrefix(s, prefix) ==
    /\ Len(s) >= Len(prefix)
    /\ SubSeq(s, 1, Len(prefix)) = prefix

\* What fasthttp.DoTimeout may leave in resp.
Replies ==
    {[err |-> TRUE, status |-> 0, ctype |-> <<>>, bodyStream |-> FALSE, body |-> <<>>]}
    \cup {[err |-> FALSE, status |-> s, ctype |-> c, bodyStream |-> b, body |-> <<>>] :
            s \in {StatusOK, 500}, c \in ContentTypes, b \in BOOLEAN}
    \cup {[err |-> FALSE, status |-> StatusOK, ctype |-> TextPlain, bodyStream |-> b,
           body |-> d] : b \in BOOLEAN, d \in Bodies}

\* req = AcquireRequest(); resp = AcquireResponse(); defer func() {...}()
FetchAcquire ==
    /\ exit = "running" /\ pc = "fetch"
    /\ req' = "acquired"
    /\ resp' = "acquired"
    /\ hasBodyStream' = FALSE
    /\ pc' = "fetch_do"
    /\ UNCHANGED <<args, exit, isDebug, err, gpc, mainDefer, reqReleases, requests,
                   respReleases, reply, ferr, stream, bodyStreamResp, ctxErr, tallyVars>>

\* err = fasthttp.DoTimeout(req, resp, requestTimeout); fasthttp.ReleaseRequest(req)
FetchDo ==
    /\ exit = "running" /\ pc = "fetch_do"
    /\ \E r \in Replies : reply' = r
    /\ req' = "released"
    /\ reqReleases' = reqReleases + 1
    /\ requests' = requests + 1
    /\ pc' = "fetch_check"
    /\ UNCHANGED <<args, exit, isDebug, err, gpc, mainDefer, resp, respReleases,
                   hasBodyStream, ferr, stream, bodyStreamResp, ctxErr, tallyVars>>

\* Mutant of CheckReply: the Content-Type is checked before the status code.
CheckReplyTypeFirst(r) ==
    IF r.err THEN "fetch"
    ELSE IF ~HasPrefix(r.ctype, TextPlain) THEN "ctype"
    ELSE IF r.status # StatusOK THEN "status"
    ELSE "nil"

\* The three checks of fetch, in order: "nil" when the reply passes them.
CheckReply(r) ==
    IF r.err THEN "fetch"
    ELSE IF r.status # StatusOK THEN "status"
    ELSE IF ~HasPrefix(r.ctype, TextPlain) THEN "ctype"
    ELSE "nil"

\* if err != nil / status / Content-Type: set err and return; else go on.
FetchCheck ==
    /\ exit = "running" /\ pc = "fetch_check"
    /\ ferr' = CheckReply(reply)
    /\ IF CheckReply(reply) # "nil"
       THEN /\ pc' = "fetch_ret"
            /\ UNCHANGED stdout
       ELSE /\ pc' = "fetch_body"
            /\ stdout' = IF isDebug THEN Append(stdout, Msg("Content-Length")) ELSE stdout
    /\ UNCHANGED <<args, exit, isDebug, err, gpc, mainDefer, req, reqReleases, requests, resp,
                   respReleases, reply, hasBodyStream, stream, bodyStreamResp, ctxErr, pos,
                   buf, prevTimeSlot, sum, count, terr, wbuf, flushes, emitted, nreads,
                   intact, eofData, delivered>>

\* if resp.IsBodyStream() { hasBodyStream = true; stream = resp.BodyStream() }
\* else { stream = bytes.NewReader(resp.Body()) }
FetchBody ==
    /\ exit = "running" /\ pc = "fetch_body"
    /\ IF reply.bodyStream
       THEN /\ hasBodyStream' = TRUE
            /\ stream' = "body"
            /\ stdout' = IF isDebug THEN Append(stdout, Msg("body stream enabled")) ELSE stdout
       ELSE /\ stream' = "bytes"
            /\ stdout' = IF isDebug THEN Append(stdout, Msg("Data size")) ELSE stdout
            /\ UNCHANGED hasBodyStream
    /\ pc' = "fetch_ret"
    /\ UNCHANGED <<args, exit, isDebug, err, gpc, mainDefer, req, reqReleases, requests, resp,
                   respReleases, reply, ferr, bodyStreamResp, ctxErr, pos, buf,
                   prevTimeSlot, sum, count, terr, wbuf, flushes, emitted, nreads, intact, eofData, delivered>>

\* Mutant of FetchDeferredRelease: the response is released whatever the body is.
FetchReleaseAlways(h) == TRUE

\* The deferred function of fetch: release resp unless it carries a body stream.
FetchDeferredRelease(h) == ~h

\* return of fetch: the deferred function runs, then main assigns
\* stream, bodyStreamResp, err := fetch(...).  resp is never nil.
FetchReturn ==
    /\ exit = "running" /\ pc = "fetch_ret"
    /\ IF FetchDeferredRelease(hasBodyStream)
       THEN /\ resp' = "released"
            /\ respReleases' = respReleases + 1
       ELSE UNCHANGED <<resp, respReleases>>
    /\ bodyStreamResp' = "resp"
    /\ err' = ferr
    /\ pc' = "defer"
    /\ UNCHANGED <<args, exit, isDebug, gpc, mainDefer, req, reqReleases, requests, reply,
                   hasBodyStream, ferr, stream, ctxErr, tallyVars>>

\* if bodyStreamResp != nil { defer fasthttp.ReleaseResponse(bodyStreamResp) }
MainDefer ==
    /\ exit = "running" /\ pc = "defer"
    /\ mainDefer' = (bodyStreamResp # "nil")
    /\ pc' = "he_fetch"
    /\ UNCHANGED <<args, exit, isDebug, err, gpc, fetchVars, ctxErr, tallyVars>>

MainHandleErrorFetch ==
    /\ exit = "running" /\ pc = "he_fetch"
    /\ HandleError(err, "tally")
    /\ UNCHANGED <<args, isDebug, err, gpc, mainDefer, fetchVars, ctxErr, pos, buf,
                   prevTimeSlot, sum, count, terr, wbuf, flushes, emitted, nreads, intact, eofData, delivered>>

\* ------------------------------------------------------------------ tally
Line(timeSlot, s, c) == [kind |-> "line", timeSlot |-> timeSlot, avg |-> FormatAvg(s, c)]

\* tallyAndPrint: one formatted line written to the bufio.Writer w.
TallyAndPrint(w, timeSlot, s, c) == Append(w, Line(timeSlot, s, c))

\* Mutant of DeadlineExceeded: the deadline is only looked at once a read was made.
DeadlineExceededLate == ctxErr /\ nreads > 0

\* Mutant of DeadlineExceeded: the deadline is never looked at.
DeadlineIgnored == FALSE

\* ctx.Err() != nil
DeadlineExceeded == ctxErr

\* Mutant of FlushOnReturn: the flush is made on the normal return only.
FlushOnNormalReturn(e) == e = "nil"

\* defer writer.Flush(): runs when tally returns, whatever it returns.
FlushOnReturn(e) == TRUE

\* What the bytes d of a released response may hold when they are read: the
\* response went back to the pool, so they are still there, or were reset, or
\* belong to the response that took the object over.
Clobbered(d) ==
    {d, [i \in 1..Len(d) |-> NUL], SubSeq(Record("9", "3"), 1, Len(d))}

\* The sizes followed for a read of a live stream with rest bytes to come: a
\* full read, and short reads of no byte, of a 9-byte tail and of all but the
\* last byte of a record.
ReadSizes(rest) == {k \in {0, Len(ShortTail), BufLen - 1, BufLen} : k <= rest} \cup {Min(BufLen, rest)}

\* stream.Read(buf): the results [n, data, err] a call may give.  A
\* bytes.Reader gives the next min(30, rest) bytes, and EOF alone once nothing
\* is left.  A live body stream gives any number of the next bytes, with no
\* error, with EOF when they are the last ones, or with a read error.
ReadResults ==
    LET rest == Len(reply.body) - pos
    IN  IF stream = "bytes"
        THEN IF rest = 0
             THEN {[n |-> 0, data |-> <<>>, err |-> "EOF"]}
             ELSE {[n |-> Min(BufLen, rest), data |-> d, err |-> "nil"] :
                     d \in IF resp = "released"
                           THEN Clobbered(SubSeq(reply.body, pos + 1, pos + Min(BufLen, rest)))
                           ELSE {SubSeq(reply.body, pos + 1, pos + Min(BufLen, rest))}}
        ELSE UNION {{[n |-> k, data |-> SubSeq(reply.body, pos + 1, pos + k), err |-> e] :
                       e \in {"nil", "read"} \cup (IF k = rest THEN {"EOF"} ELSE {})} :
                    k \in ReadSizes(rest)}

\* The checks made on a chunk of n > 0 bytes in buffer b: the last byte read
\* must be a newline and b[21:29] must parse.  "nil" when it passes.
ChunkError(b, n) ==
    IF b[n] # NL THEN "format"
    ELSE IF ~ParseFloat(TrimSpace(SubSeq(b, ValFrom + 1, ValTo))).ok THEN "parse"
    ELSE "nil"

\* score: the value parsed from b[21:29].
Score(b) == ParseFloat(TrimSpace(SubSeq(b, ValFrom + 1, ValTo))).val

\* Mutant of FirstSlot: prevTimeSlot is not set from the first record.
FirstSlotUnset(c, timeSlot, prevTS) == prevTS

\* if count == 0 { copy(prevTimeSlot, timeSlot) }: the key the chunk's
\* timeSlot is compared with.
FirstSlot(c, timeSlot, prevTS) == IF c = 0 THEN timeSlot ELSE prevTS

\* return of tally with result e and writer contents w: the deferred Flush
\* runs, and main assigns err = tally(ctx, stream).
TallyReturn(e, w) ==
    /\ terr' = e
    /\ IF FlushOnReturn(e)
       THEN /\ stdout' = stdout \o w
            /\ wbuf' = <<>>
            /\ flushes' = flushes + 1
       ELSE /\ wbuf' = w
            /\ UNCHANGED <<stdout, flushes>>
    /\ err' = e
    /\ pc' = "he_tally"

\* The var block of tally.
TallyStart ==
    /\ exit = "running" /\ pc = "tally"
    /\ buf' = [i \in 1..BufLen |-> NUL]
    /\ prevTimeSlot' = [i \in 1..KeyLen |-> NUL]
    /\ sum' = 0
    /\ count' = 0
    /\ wbuf' = <<>>
    /\ terr' = "nil"
    /\ pc' = "tally_loop"
    /\ UNCHANGED <<args, exit, isDebug, err, gpc, mainDefer, fetchVars, ctxErr, pos, stdout,
                   flushes, emitted, nreads, intact, eofData, delivered>>

\* Head of the loop: if ctx.Err() != nil { err = ...; return }
TallyCheckDeadline ==
    /\ exit = "running" /\ pc = "tally_loop"
    /\ IF DeadlineExceeded
       THEN TallyReturn("timeout", wbuf)
       ELSE /\ pc' = "tally_read"
            /\ UNCHANGED <<err, terr, wbuf, stdout, flushes>>
    /\ UNCHANGED <<args, exit, isDebug, gpc, mainDefer, fetchVars, ctxErr, pos, buf,
                   prevTimeSlot, sum, count, emitted, nreads, intact, eofData, delivered>>

\* The rest of one iteration: the read, the checks on the chunk and the fold.
\* nreads counts the reads up to MaxReads; past that, only reads that return
\* no byte are followed, uncounted, so that a stream that stays silent is
\* followed for as long as it does.
TallyRead ==
    /\ exit = "running" /\ pc = "tally_read"
    /\ \E r \in ReadResults :
        LET b == [i \in 1..BufLen |-> IF i <= r.n THEN r.data[i] ELSE buf[i]]
            timeSlot == SubSeq(b, 1, KeyLen)
            prev == FirstSlot(count, timeSlot, prevTimeSlot)
        IN  /\ (nreads < MaxReads \/ r.n = 0)
            /\ buf' = b
            /\ pos' = pos + r.n
            /\ nreads' = IF nreads < MaxReads THEN nreads + 1 ELSE nreads
            /\ intact' = (intact /\ r.data = SubSeq(reply.body, pos + 1, pos + r.n))
            /\ eofData' = (eofData \/ (r.n > 0 /\ r.err = "EOF"))
            /\ delivered' = delivered \o r.data
            /\ IF r.err = "EOF"
               THEN /\ pc' = "tally_last"
                    /\ UNCHANGED <<err, terr, wbuf, stdout, flushes, prevTimeSlot, sum, count,
                                   emitted>>
               ELSE IF r.err # "nil"
               THEN /\ TallyReturn("read", wbuf)
                    /\ UNCHANGED <<prevTimeSlot, sum, count, emitted>>
               ELSE IF r.n = 0
               THEN /\ pc' = "tally_loop"
                    /\ UNCHANGED <<err, terr, wbuf, stdout, flushes, prevTimeSlot, sum, count,
                                   emitted>>
               ELSE IF ChunkError(b, r.n) # "nil"
               THEN /\ TallyReturn(ChunkError(b, r.n), wbuf)
                    /\ UNCHANGED <<prevTimeSlot, sum, count, emitted>>
               ELSE IF timeSlot = prev
               THEN /\ prevTimeSlot' = prev
                    /\ sum' = sum + Score(b)
                    /\ count' = count + 1
                    /\ pc' = "tally_loop"
                    /\ UNCHANGED <<err, terr, wbuf, stdout, flushes, emitted>>
               ELSE /\ wbuf' = TallyAndPrint(wbuf, prev, sum, count)
                    /\ emitted' = Append(emitted, [timeSlot |-> prev, sum |-> sum,
                                                   count |-> count])
                    /\ prevTimeSlot' = timeSlot
                    /\ count' = 1
                    /\ sum' = Score(b)
                    /\ pc' = "tally_loop"
                    /\ UNCHANGED <<err, terr, stdout, flushes>>
    /\ UNCHANGED <<args, exit, isDebug, gpc, mainDefer, fetchVars, ctxErr>>

\* After the loop: tallyAndPrint(prevTimeSlot, sum, count); return nil
TallyLast ==
    /\ exit = "running" /\ pc = "tally_last"
    /\ emitted' = Append(emitted, [timeSlot |-> prevTimeSlot, sum |-> sum, count |-> count])
    /\ TallyReturn("nil", TallyAndPrint(wbuf, prevTimeSlot, sum, count))
    /\ UNCHANGED <<args, exit, isDebug, gpc, mainDefer, fetchVars, ctxErr, pos, buf,
                   prevTimeSlot, sum, count, nreads, intact, eofData, delivered>>

\* ------------------------------------------------------------ end of main
MainHandleErrorTally ==
    /\ exit = "running" /\ pc = "he_tally"
    /\ HandleError(err, "memprof")
    /\ UNCHANGED <<args, isDebug, err, gpc, mainDefer, fetchVars, ctxErr, pos, buf,
                   prevTimeSlot, sum, count, terr, wbuf, flushes, emitted, nreads, intact, eofData, delivered>>

\* if isDebug { takeMemProfile() }: os.Create or WriteHeapProfile may fail,
\* and takeMemProfile then ends the process through handleError.
MainMemProfile ==
    /\ exit = "running" /\ pc = "memprof"
    /\ IF isDebug
       THEN \E e \in {"nil", "memprof"} : HandleError(e, "return")
       ELSE /\ pc' = "return"
            /\ UNCHANGED <<exit, stdout>>
    /\ UNCHANGED <<args, isDebug, err, gpc, mainDefer, fetchVars, ctxErr, pos, buf,
                   prevTimeSlot, sum, count, terr, wbuf, flushes, emitted, nreads, intact, eofData, delivered>>

\* main returns: the deferred ReleaseResponse (when registered) and cancel()
\* run, and the process ends with status 0.
MainReturn ==
    /\ exit = "running" /\ pc = "return"
    /\ IF mainDefer
       THEN /\ resp' = "released"
            /\ respReleases' = respReleases + 1
       ELSE UNCHANGED <<resp, respReleases>>
    /\ ctxErr' = TRUE
    /\ exit' = "exit0"
    /\ UNCHANGED <<args, pc, isDebug, err, gpc, mainDefer, req, reqReleases, requests, reply,
                   hasBodyStream, ferr, stream, bodyStreamResp, tallyVars>>

Next ==
    \/ Expire
    \/ MainValidate
    \/ MainHandleErrorArgs
    \/ MainDebug
    \/ GoListenFail
    \/ GoHandleError
    \/ FetchAcquire
    \/ FetchDo
    \/ FetchCheck
    \/ FetchBody
    \/ FetchReturn
    \/ MainDefer
    \/ MainHandleErrorFetch
    \/ TallyStart
    \/ TallyCheckDeadline
    \/ TallyRead
    \/ TallyLast
    \/ MainHandleErrorTally
    \/ MainMemProfile
    \/ MainReturn

Spec == Init /\ [][Next]_vars

\* The same program with its scheduling: main is the running thread, so an
\* iteration of tally that can be made is made, and every Read returns
\* (weak fairness on the steps of tally); the timer of
\* context.WithTimeout fires whatever tally is doing, which for a deadline
\* followed at the head of the loop only is strong fairness on Expire.  The
\* debug goroutine may serve for ever: no fairness on its steps.
LiveSpec ==
    /\ Init /\ [][Next]_vars
    /\ WF_vars(TallyCheckDeadline)
    /\ WF_vars(TallyRead)
    /\ WF_vars(TallyLast)
    /\ SF_vars(Expire)

\* ------------------------------------------------------- ground truth
\* tally has returned to main.
TallyReturned == pc \in {"he_tally", "memprof", "return"}

\* The 30-byte records of a body, its bucket keys and values, read off the
\* wire format.
RecordsOf(body) ==
    [i \in 1..(Len(body) \div BufLen) |-> SubSeq(body, (i - 1) * BufLen + 1, i * BufLen)]
WellFormed(body) ==
    /\ Len(body) % BufLen = 0
    /\ \A i \in 1..(Len(body) \div BufLen) : RecordsOf(body)[i] \in Records
KeyOf(r) == SubSeq(r, 1, KeyLen)
ValueOf(r) == ParseFloat(TrimSpace(SubSeq(r, ValFrom + 1, ValTo))).val
HourOf(r) == DigitVal(r[KeyLen])
SortedByKey(body) ==
    \A i, j \in 1..(Len(body) \div BufLen) :
        i < j => HourOf(RecordsOf(body)[i]) <= HourOf(RecordsOf(body)[j])

\* The maximal contiguous runs of equal bucket keys of a sequence of records,
\* each with the sum of its values and its length.
RECURSIVE RunsOf(_)
RunsOf(rs) ==
    IF rs = <<>> THEN <<>>
    ELSE LET front == RunsOf(SubSeq(rs, 1, Len(rs) - 1))
             r == rs[Len(rs)]
         IN  IF front # <<>> /\ front[Len(front)].timeSlot = KeyOf(r)
             THEN [front EXCEPT ![Len(front)] =
                      [timeSlot |-> KeyOf(r), sum |-> @.sum + ValueOf(r), count |-> @.count + 1]]
             ELSE Append(front, [timeSlot |-> KeyOf(r), sum |-> ValueOf(r), count |-> 1])

\* The lines tally has written, flushed or not, in order.
OutLines == SelectSeq(stdout \o wbuf, LAMBDA x : x.kind = "line")

RECURSIVE SumCounts(_)
SumCounts(es) == IF es = <<>> THEN 0 ELSE Head(es).count + SumCounts(Tail(es))

ZeroKey == [i \in 1..KeyLen |-> NUL]

\* ----------------------------------------------------------------- claims
\* C1: for every sequence of well-formed records, the empty one included, that
\* tally drains to end-of-stream, the number of lines emitted equals the
\* number of maximal contiguous runs of equal bucket keys.
C1_LinesEqualRuns ==
    (TallyReturned /\ terr = "nil" /\ WellFormed(reply.body))
        => Len(OutLines) = Len(RunsOf(RecordsOf(reply.body)))

\* C2: for every non-empty sequence of well-formed records drained to
\* end-of-stream, the i-th line carries the key of the i-th run and the
\* average sum/count of that run, in the order of the runs.
C2_LinesAreRunAverages ==
    (TallyReturned /\ terr = "nil" /\ WellFormed(reply.body) /\ reply.body # <<>>)
        => LET runs == RunsOf(RecordsOf(reply.body))
           IN  OutLines = [i \in 1..Len(runs) |->
                              Line(runs[i].timeSlot, runs[i].sum, runs[i].count)]

\* C2, for the runs in which every read delivered the bytes of the body and
\* end-of-stream was reported by a read of its own (n = 0).
C2_HoldsWithoutEofData ==
    (TallyReturned /\ terr = "nil" /\ WellFormed(reply.body) /\ reply.body # <<>>
       /\ intact /\ ~eofData)
        => LET runs == RunsOf(RecordsOf(reply.body))
           IN  OutLines = [i \in 1..Len(runs) |->
                              Line(runs[i].timeSlot, runs[i].sum, runs[i].count)]

\* C3: for every well-formed input sorted by bucket key and drained to
\* end-of-stream, the counts passed to tallyAndPrint add up to the number of
\* records read from the stream.
C3_CountsAddUp ==
    (TallyReturned /\ terr = "nil" /\ WellFormed(reply.body) /\ SortedByKey(reply.body))
        => SumCounts(emitted) = pos \div BufLen

\* C3, for the runs in which end-of-stream was reported by a read of its own.
C3_HoldsWithoutEofData ==
    (TallyReturned /\ terr = "nil" /\ WellFormed(reply.body) /\ SortedByKey(reply.body)
       /\ ~eofData)
        => SumCounts(emitted) = pos \div BufLen

\* C4: every call of tallyAndPrint is made with count >= 1 and with a bucket
\* key copied from a record that was read, never with the zero-value bucket.
C4_NoEmptyBucketEmitted ==
    \A i \in 1..Len(emitted) : emitted[i].count >= 1 /\ emitted[i].timeSlot # ZeroKey

\* C5: the deadline is checked at the head of every iteration, before the
\* read.  A read is only made right after a check that found the deadline not
\* elapsed; a check that finds it elapsed makes tally return the deadline
\* error with no further read and no further emission (none at all when it
\* had elapsed before the first read); after that return nothing is read or
\* emitted.
C5_DeadlineStopsTally ==
    [][/\ (pc = "tally_loop" /\ pc' # "tally_loop" /\ ctxErr)
            => /\ pc' = "he_tally" /\ terr' = "timeout" /\ err' = "timeout"
               /\ nreads' = nreads /\ emitted' = emitted /\ OutLines' = OutLines
               /\ (nreads = 0 => OutLines' = <<>>)
       /\ (pc' = "tally_read" /\ pc # "tally_read") => (pc = "tally_loop" /\ ~ctxErr)
       /\ (nreads' # nreads) => (pc = "tally_read" /\ pc' # "tally_read")
       /\ (terr = "timeout") => (nreads' = nreads /\ emitted' = emitted /\ terr' = terr)
      ]_vars

\* A state in which tally gave up on the deadline with input still unread.
C5_Witness ==
    /\ pc = "he_tally" /\ terr = "timeout"
    /\ nreads > 0 /\ pos < Len(reply.body)

\* C6: whenever a read returns a chunk whose last byte is not a newline or
\* whose value field does not parse, tally returns an error: nothing is emitted
\* at or after that point and no further read is made.
C6_MalformedChunkFailsRun ==
    [][/\ (nreads' = nreads + 1 /\ pos' > pos /\ ChunkError(buf', pos' - pos) # "nil")
            => (pc' = "he_tally" /\ terr' # "nil" /\ emitted' = emitted
                /\ OutLines' = OutLines)
       /\ (terr # "nil") => (nreads' = nreads /\ emitted' = emitted /\ terr' = terr)
      ]_vars

\* C6, for the reads that do not report end-of-stream along with the chunk.
C6_HoldsWithoutEofData ==
    [][/\ (nreads' = nreads + 1 /\ pos' > pos /\ ChunkError(buf', pos' - pos) # "nil"
           /\ pc' # "tally_last")
            => (pc' = "he_tally" /\ terr' # "nil" /\ emitted' = emitted
                /\ OutLines' = OutLines)
       /\ (terr # "nil") => (nreads' = nreads /\ emitted' = emitted /\ terr' = terr)
      ]_vars

C8_NoReadAfterRelease ==
    [][(nreads' = nreads + 1 /\ pos' > pos /\ stream = "bytes") => resp # "released"]_vars

\* C9: when fetch returned a live body stream, the response has been released
\* whenever main has ended the process, by return or through handleError
\* (stated for the runs without the debug goroutine, where only main ends
\* the process).
C9_ReleasedOnEveryExit ==
    (exit # "running" /\ ~isDebug /\ hasBodyStream) => resp = "released"

\* C10: fetch releases the request exactly once on every path, and has
\* released the response when it returns on every path but the one that
\* returns a live body stream, on which it does not release it.
C10_FetchReleases ==
    LET live == /\ ~reply.err /\ reply.status = StatusOK /\ HasPrefix(reply.ctype, TextPlain)
                /\ reply.bodyStream
        before == {"validate", "he_args", "debug", "fetch", "fetch_do"}
        inside == {"fetch_check", "fetch_body", "fetch_ret"}
    IN  /\ reqReleases = (IF pc \in before THEN 0 ELSE 1)
        /\ pc \in before \cup inside => respReleases = 0
        /\ (pc \notin before \cup inside /\ exit # "exit0")
             => /\ respReleases = (IF live THEN 0 ELSE 1)
                /\ (stream = "body") = live
                /\ (stream = "nil") = (ferr # "nil")

\* A state right after fetch returned a live body stream.
C10_Witness ==
    /\ pc = "defer" /\ stream = "body"
    /\ reqReleases = 1 /\ respReleases = 0 /\ resp = "acquired"

\* ------------------------------------------------------------------ C11
\* C11: once fetch has returned, its error is the first failing check of the
\* reply in the order request error, status code, Content-Type (so a reply
\* with a non-200 status and a wrong Content-Type reports the status), a
\* stream is returned exactly when there is no error, that is exactly when
\* the request succeeded with status 200 and a Content-Type beginning with
\* text/plain, and the request was issued exactly once.
C11_FetchFailsWithoutStream ==
    LET returned == pc \notin {"validate", "he_args", "debug", "fetch", "fetch_do",
                               "fetch_check", "fetch_body", "fetch_ret"}
        good == /\ ~reply.err
                /\ reply.status = StatusOK
                /\ HasPrefix(reply.ctype, TextPlain)
    IN  /\ requests <= 1
        /\ returned =>
              /\ requests = 1
              /\ (reply.err => ferr = "fetch")
              /\ (~reply.err /\ reply.status # StatusOK => ferr = "status")
              /\ (~reply.err /\ reply.status = StatusOK /\ ~HasPrefix(reply.ctype, TextPlain)
                    => ferr = "ctype")
              /\ (good <=> ferr = "nil")
              /\ (good <=> stream # "nil")

\* fetch has returned on a reply with status 500 and Content-Type text/html:
\* the status error, no stream.
C11_Witness ==
    /\ pc = "defer"
    /\ ~reply.err /\ reply.status = 500 /\ reply.ctype = <<"text/html">>
    /\ ferr = "status" /\ stream = "nil" /\ requests = 1

\* ------------------------------------------------------------------ C12
\* C12: the debug goroutine does not interact with the pipeline: the error
\* main is about to check after fetch is the one fetch returned, the error
\* it is about to check after tally is the one tally returned, and the
\* process exits with status 1 only on an error of the pipeline itself
\* (arguments, fetch, tally, memory profile).
C12_GoroutineIsolated ==
    /\ (exit = "running" /\ pc = "he_fetch" => err = ferr)
    /\ (exit = "running" /\ pc = "he_tally" => err = terr)
    /\ (exit = "exit1" =>
          \/ pc = "he_args" /\ ValidateCommandArgs(args).err # "nil"
          \/ pc = "he_fetch" /\ ferr # "nil"
          \/ pc = "he_tally" /\ terr # "nil"
          \/ pc = "memprof")

\* ------------------------------------------------------------------ C13
\* The run of tally that takes the bytes of body in full reads, min(30, rest)
\* bytes at a time and end-of-stream alone, from position p with buffer b and
\* bucket (prev, s, c), out being the lines written so far: the lines and
\* the error it returns.
RECURSIVE FullReadRun(_, _, _, _, _, _, _)
FullReadRun(body, p, b, prev, s, c, out) ==
    IF p = Len(body)
    THEN [lines |-> Append(out, Line(prev, s, c)), err |-> "nil"]
    ELSE LET n == Min(BufLen, Len(body) - p)
             nb == [i \in 1..BufLen |-> IF i <= n THEN body[p + i] ELSE b[i]]
             timeSlot == SubSeq(nb, 1, KeyLen)
             first == FirstSlot(c, timeSlot, prev)
             e == ChunkError(nb, n)
         IN  IF e # "nil"
             THEN [lines |-> out, err |-> e]
             ELSE IF timeSlot = first
             THEN FullReadRun(body, p + n, nb, first, s + Score(nb), c + 1, out)
             ELSE FullReadRun(body, p + n, nb, timeSlot, Score(nb), 1,
                              Append(out, Line(first, s, c)))

\* tally over body, read in full reads.
TallyOf(body) ==
    FullReadRun(body, 0, [i \in 1..BufLen |-> NUL], ZeroKey, 0, 0, <<>>)

\* C13: a run of tally that was given the bytes of the body unchanged, with
\* no read error and no deadline, writes the lines and returns the error of
\* the run that takes the same bytes in full reads, however its own reads
\* split them: so any two runs over the same bytes agree.
C13_OutputDependsOnBytesOnly ==
    (TallyReturned /\ intact /\ terr \notin {"timeout", "read"})
        => /\ OutLines = TallyOf(reply.body).lines
           /\ terr = TallyOf(reply.body).err

\* ------------------------------------------------------------------ C14
\* The bucket tally holds open, as a run.
OpenBucket == [timeSlot |-> prevTimeSlot, sum |-> sum, count |-> count]

\* The lines of a sequence of runs.
LinesOf(runs) ==
    [i \in 1..Len(runs) |-> Line(runs[i].timeSlot, runs[i].sum, runs[i].count)]

\* Every 30 bytes of body pass the checks tally makes on a chunk.
AllChunksPass(body) ==
    /\ Len(body) % BufLen = 0
    /\ \A i \in 1..(Len(body) \div BufLen) :
          ChunkError(SubSeq(body, (i - 1) * BufLen + 1, i * BufLen), BufLen) = "nil"

\* s is a prefix of t, and shorter.
IsStrictPrefix(s, t) == Len(s) < Len(t) /\ s = SubSeq(t, 1, Len(s))

\* C14: when tally has returned an error (deadline, read error, malformed
\* chunk), every line emitted for a closed bucket has reached standard output
\* and none was withdrawn, then or later; at that return, when the bytes
\* folded so far are whole records, the buckets written are the runs of those
\* records but the last, which is the bucket still open and is not written;
\* and when the body is well-formed records delivered unchanged, its
\* full-read run is error-free and the output is a prefix of that run's
\* output that stops before the line of the open bucket.
C14_PartialOutputIsPrefix ==
    (TallyReturned /\ terr # "nil") =>
        LET k == SumCounts(emitted) + count
            consumed == SubSeq(delivered, 1, BufLen * k)
            lines == OutLines
            whole == TallyOf(reply.body)
            atReturn == pc = "he_tally" /\ exit = "running"
        IN  /\ wbuf = <<>>
            /\ lines = LinesOf(emitted)
            /\ (k = 0 => lines = <<>>)
            /\ (/\ atReturn /\ k > 0
                /\ Len(delivered) >= BufLen * k /\ AllChunksPass(consumed))
                  => Append(emitted, OpenBucket) = RunsOf(RecordsOf(consumed))
            /\ (atReturn /\ intact /\ WellFormed(reply.body))
                  => /\ whole.err = "nil"
                     /\ IsStrictPrefix(lines, whole.lines)

\* tally failed on a malformed chunk after it had closed one bucket and
\* opened another.
C14_Witness ==
    /\ TallyReturned /\ terr = "format" /\ intact
    /\ Len(OutLines) = 1 /\ count = 1
    /\ WellFormed(reply.body)
    /\ wbuf = <<>>

\* ------------------------------------------------------------------ C15
\* While tally is in its loop and the bytes delivered so far are k >= 1 whole
\* records: all k are folded, the open bucket is the last maximal run of
\* equal keys of those records, and the lines written are those of the runs
\* before it.
C15_LoopInvariant ==
    (/\ pc \in {"tally_loop", "tally_read"}
     /\ Len(delivered) >= BufLen
     /\ AllChunksPass(delivered))
        => LET runs == RunsOf(RecordsOf(delivered))
           IN  /\ SumCounts(emitted) + count = Len(delivered) \div BufLen
               /\ OpenBucket = runs[Len(runs)]
               /\ OutLines = LinesOf(SubSeq(runs, 1, Len(runs) - 1))

\* One iteration that takes a record r of such an input: with the key of
\* the open bucket it adds r's value to sum and one to count and writes
\* nothing; with another key it writes exactly the line of the old bucket
\* and opens (key of r, value of r, 1); the first record opens its bucket
\* and writes nothing.
C15_FoldStep ==
    (/\ pc = "tally_read" /\ pc' = "tally_loop"
     /\ Len(delivered') > Len(delivered)
     /\ AllChunksPass(delivered'))
        => LET r == SubSeq(delivered', Len(delivered) + 1, Len(delivered'))
           IN  IF count > 0 /\ KeyOf(r) = prevTimeSlot
               THEN /\ prevTimeSlot' = prevTimeSlot
                    /\ sum' = sum + ValueOf(r)
                    /\ count' = count + 1
                    /\ OutLines' = OutLines
               ELSE /\ prevTimeSlot' = KeyOf(r)
                    /\ sum' = ValueOf(r)
                    /\ count' = 1
                    /\ OutLines' = IF count > 0
                                   THEN Append(OutLines, Line(prevTimeSlot, sum, count))
                                   ELSE OutLines

\* C15: over well-formed input, after any prefix of k >= 1 records has been
\* processed exactly one bucket is open and (prevTimeSlot, sum, count) are
\* the key, sum and length of the last maximal run of that prefix; a record
\* with the open key changes only sum and count and emits nothing, a record
\* with another key emits exactly one line, for the old bucket, and resets
\* to (new key, value, 1).
C15_OneOpenBucket == [](C15_LoopInvariant) /\ [][C15_FoldStep]_vars

\* Three records were folded, the first two of one key and the third of
\* another: one line is written and the third record's bucket is open.
C15_Witness ==
    /\ pc = "tally_loop" /\ Len(delivered) = 3 * BufLen /\ AllChunksPass(delivered)
    /\ count = 1 /\ Len(emitted) = 1 /\ emitted[1].count = 2
    /\ prevTimeSlot # emitted[1].timeSlot

\* ------------------------------------------------------------------ C16
\* C16: every iteration that folds a chunk (into the open bucket or into a
\* new one) has read one complete 30-byte record in that iteration, so key
\* and value come from the current read; a read of fewer than 30 bytes is
\* never folded.
C16_FoldsWholeRecordsOnly ==
    [][(/\ pc = "tally_read" /\ pc' = "tally_loop"
        /\ SumCounts(emitted') + count' > SumCounts(emitted) + count)
          => pos' - pos = BufLen]_vars

\* ------------------------------------------------------------------ C17
\* C17: the one response fetch acquires is released at most once by fetch
\* and main together, and on the buffered path (no body stream) a run that
\* completes normally has released it exactly once.
C17_ReleasedAtMostOnce ==
    /\ respReleases <= 1
    /\ (exit = "exit0" /\ stream = "bytes" => respReleases = 1)

\* ------------------------------------------------------------------ C18
\* C18: when the read that reports end-of-stream also returns bytes, and the
\* bytes delivered are whole records, the record it returned is folded
\* before the loop is left: one more record is counted.
C18_DataWithEofIsFolded ==
    [][(/\ pc = "tally_read" /\ pc' = "tally_last"
        /\ Len(delivered') > Len(delivered)
        /\ AllChunksPass(delivered'))
          => SumCounts(emitted') + count' = SumCounts(emitted) + count + 1]_vars

\* ------------------------------------------------------------------ C19
\* tally is in its loop.
InLoop == pc \in {"tally_loop", "tally_read"}

\* The chunks tally has folded so far.
Folded == SumCounts(emitted) + count

\* One iteration of the loop either leaves the loop, or folds exactly one
\* chunk, or got no byte and no error and then changes neither the open
\* bucket nor the output.
C19_IterationStep ==
    (pc = "tally_read" /\ pc' = "tally_loop")
        => IF delivered' = delivered
           THEN /\ UNCHANGED <<prevTimeSlot, sum, count, emitted, wbuf, stdout, pos>>
                /\ OutLines' = OutLines
           ELSE Folded' = Folded + 1

====
